---- MODULE Spec2Model ----
(***************************************************************************)
(* worldWise: the cities store (CitiesContext.jsx, the useReducer version) *)
(* with the remote /cities resource it talks to, the consumers that call   *)
(* it (CityItem, Form) and the route they navigate.                        *)
(*                                                                         *)
(* JavaScript values are written as follows.  A number is <<"number", n>>, *)
(* NaN is its own value and JSON's null another, so that Number(),         *)
(* JSON.stringify and === are modelled by what they do.  City ids are      *)
(* integers; NaNId is what parseInt returns for a non-numeric argument.    *)
(* Object identity (an array, a function) is one bit that flips when a new *)
(* object is allocated: every comparison the program makes is between the  *)
(* object of one render and the object of the next.                        *)
(***************************************************************************)
EXTENDS Integers, Sequences, FiniteSets, TLC

VARIABLES
    state,        \* the reducer state of CitiesProvider (useReducer)
    memo,         \* the functions useCallback keeps between renders
    effectDeps,   \* dependencies of the last run of the mount effect
    effectRuns,   \* how often the mount effect has run
    db,           \* the remote store's collection
    nextId,       \* the id the remote store assigns next
    net,          \* HTTP requests in flight, oldest first
    timers,       \* pending settle delays of handleCityClick: the city found
    refetches,    \* explicit fetchCities() calls made by consumers
    overlapped,   \* ids returned by createCity calls that overlapped another
    map,          \* the Map component: useGeolocation, geoRequestedRef, the
                  \* dependencies of the last run of its sync effect
    location,     \* the router's location: pathname, :id, ?lat, ?lng
    form,         \* state of the mounted Form
    auth,         \* AuthProvider's reducer state, the browser's URL and
                  \* location.state.from, the inputs of the Login page
    geocode,      \* the Form's reverse geocoding: what it shows beside the
                  \* city name, and its requests that are not answered yet
    last          \* the action dispatched last, and whether an exception
                  \* then left the function that dispatched it

vars == <<state, memo, effectDeps, effectRuns, db, nextId, net, timers,
          refetches, overlapped, map, location, form, auth, geocode, last>>

----------------------------------------------------------------------------
(* Bounds of the model *)

MaxId == 2
MaxInFlight == 2
MaxTimers == 1
MaxRefetch == 1
MaxEffectRuns == 2

----------------------------------------------------------------------------
(* JavaScript values *)

Null == "<null>"
Num(n) == <<"number", n>>
NaN == <<"NaN", 0>>
JsNull == <<"null", 0>>
NoId == -1
NaNId == -2

NoCity == [id |-> NoId, cityName |-> "", lat |-> JsNull, lng |-> JsNull]
Undefined == [id |-> NaNId, cityName |-> "", lat |-> JsNull, lng |-> JsNull]

Truthy(v) == v # JsNull /\ v # NaN /\ v # Num(0)

\* Numbers a URL of the model can carry.
Coords == {0, 10, 20, 38, -9}

\* ${n} in a template literal.
NumToString(v) == IF v = NaN THEN "NaN" ELSE IF v = JsNull THEN "null" ELSE ToString(v[2])

\* Number(s) of a query-string value; Number(null) and Number("") are 0.
Number(s) ==
    IF s = Null \/ s = "" THEN Num(0)
    ELSE IF \E n \in Coords : ToString(n) = s
         THEN Num(CHOOSE n \in Coords : ToString(n) = s)
         ELSE NaN

\* parseInt of an id argument: an integer is itself, anything else is NaN.
parseInt(v) == IF v >= 0 THEN v ELSE NaNId

\* a === b on ids (NaN equals nothing).
StrictEq(a, b) == a = b /\ a # NaNId

\* JSON.parse(JSON.stringify(v)): NaN is written as null.
JsonNumber(v) == IF v = NaN THEN JsNull ELSE v
JsonCity(c) == [c EXCEPT !.lat = JsonNumber(@), !.lng = JsonNumber(@)]

----------------------------------------------------------------------------
(* Sequences *)

RECURSIVE Filter(_, _)
Filter(s, id) ==
    IF s = <<>> THEN <<>>
    ELSE IF Head(s).id # id THEN <<Head(s)>> \o Filter(Tail(s), id)
         ELSE Filter(Tail(s), id)

Remove(s, i) == SubSeq(s, 1, i - 1) \o SubSeq(s, i + 1, Len(s))

\* Array.prototype.find on a list of cities, by id.
Find(cs, id) ==
    LET hits == {i \in 1..Len(cs) : StrictEq(cs[i].id, id)}
    IN  IF hits = {} THEN Undefined
        ELSE cs[CHOOSE i \in hits : \A j \in hits : i <= j]

Count(cs, id) == Cardinality({i \in 1..Len(cs) : cs[i].id = id})

----------------------------------------------------------------------------
(* The reducer *)

initialState ==
    [cities |-> <<>>, citiesRef |-> 0, isLoading |-> TRUE,
     currentCity |-> NoCity, isLoadingCity |-> FALSE, error |-> Null]

Action(type) == [type |-> type, cities |-> <<>>, city |-> NoCity, id |-> NoId, msg |-> Null]
Loaded(cs) == [Action("cities/loaded") EXCEPT !.cities = cs]
Created(c) == [Action("city/created") EXCEPT !.city = c]
Deleted(id) == [Action("city/deleted") EXCEPT !.id = id]
Selected(c) == [Action("city/selected") EXCEPT !.city = c]
Occurred(msg) == [Action("error/occurred") EXCEPT !.msg = msg]

\* What a call of the reducer yields when it throws.
Thrown == [threw |-> "Unknown action type"]

\* citiesRef is the identity of the `cities` array: a loaded payload, a spread
\* and a filter are new arrays, `...state` keeps the array it has.

\* case "cities/loaded"
onCitiesLoaded(s, action) ==
    [s EXCEPT !.cities = action.cities, !.citiesRef = 1 - @,
              !.isLoading = FALSE, !.error = Null]

\* case "city/created"
onCityCreated(s, action) ==
    [s EXCEPT !.cities = Append(@, action.city), !.citiesRef = 1 - @,
              !.error = Null]

\* city/deleted without the reset of currentCity.
onCityDeletedKeepsSelection(s, action) ==
    [s EXCEPT !.cities = Filter(@, action.id), !.citiesRef = 1 - @,
              !.error = Null]

\* case "city/deleted"
onCityDeleted(s, action) ==
    [s EXCEPT !.cities = Filter(@, action.id), !.citiesRef = 1 - @,
              !.currentCity = IF StrictEq(@.id, action.id) THEN NoCity ELSE @,
              !.error = Null]

\* city/selected that leaves isLoadingCity as it is.
onCitySelectedStillLoading(s, action) ==
    [s EXCEPT !.currentCity = action.city, !.error = Null]

\* case "city/selected"
onCitySelected(s, action) ==
    [s EXCEPT !.currentCity = action.city, !.isLoadingCity = FALSE,
              !.error = Null]

\* error/occurred that also empties the collection, as a catch block with
\* setCities([]) would.
onErrorOccurredClearsCities(s, action) ==
    [s EXCEPT !.error = action.msg, !.isLoading = FALSE,
              !.isLoadingCity = FALSE, !.cities = <<>>, !.citiesRef = 1 - @]

\* case "error/occurred"
onErrorOccurred(s, action) ==
    [s EXCEPT !.error = action.msg, !.isLoading = FALSE,
              !.isLoadingCity = FALSE]

\* A default case that returns the state instead of throwing.
onUnknownActionIgnored(s, action) == s

\* default: throw new Error(`Unknown action type: ...`)
onUnknownAction(s, action) == Thrown

citiesReducer(s, action) ==
    CASE action.type = "cities/loaded" -> onCitiesLoaded(s, action)
      [] action.type = "city/created" -> onCityCreated(s, action)
      [] action.type = "city/deleted" -> onCityDeleted(s, action)
      [] action.type = "loading/started" ->
            [s EXCEPT !.isLoading = TRUE, !.error = Null]
      [] action.type = "loading/finished" ->
            [s EXCEPT !.isLoading = FALSE]
      [] action.type = "city/loading-started" ->
            [s EXCEPT !.isLoadingCity = TRUE, !.error = Null]
      [] action.type = "city/loading-finished" ->
            [s EXCEPT !.isLoadingCity = FALSE]
      [] action.type = "city/selected" -> onCitySelected(s, action)
      [] action.type = "city/deselected" ->
            [s EXCEPT !.currentCity = NoCity, !.error = Null]
      [] action.type = "error/occurred" -> onErrorOccurred(s, action)
      [] action.type = "error/cleared" ->
            [s EXCEPT !.error = Null]
      [] OTHER -> onUnknownAction(s, action)

----------------------------------------------------------------------------
(* The provider's render: useCallback *)

\* A plain function expression: a new function on every render.
useCallbackNoMemo(prevFn, prevDeps, deps) == 1 - prevFn

\* useCallback(fn, deps): the function of the previous render when deps are
\* the same, a new function otherwise.
useCallback(prevFn, prevDeps, deps) ==
    IF deps = prevDeps THEN prevFn ELSE 1 - prevFn

initialMemo ==
    [fetchCities |-> 0, createCity |-> 0, deleteCity |-> 0,
     getCity |-> 0, handleCityClick |-> 0, setSelectedCityId |-> 0,
     citiesDeps |-> <<0>>]

\* A provider whose fetchCities lists [cities] as its dependencies.
RenderFetchDependsOnCities(m, s) ==
    [fetchCities       |-> useCallback(m.fetchCities, m.citiesDeps, <<s.citiesRef>>),
     createCity        |-> useCallback(m.createCity, <<>>, <<>>),
     deleteCity        |-> useCallback(m.deleteCity, <<>>, <<>>),
     getCity           |-> useCallback(m.getCity, m.citiesDeps, <<s.citiesRef>>),
     handleCityClick   |-> useCallback(m.handleCityClick, m.citiesDeps, <<s.citiesRef>>),
     setSelectedCityId |-> useCallback(m.setSelectedCityId, m.citiesDeps, <<s.citiesRef>>),
     citiesDeps        |-> <<s.citiesRef>>]

\* CitiesProvider's body, run with the state s after every dispatch.
Render(m, s) ==
    [fetchCities       |-> useCallback(m.fetchCities, <<>>, <<>>),
     createCity        |-> useCallback(m.createCity, <<>>, <<>>),
     deleteCity        |-> useCallback(m.deleteCity, <<>>, <<>>),
     getCity           |-> useCallback(m.getCity, m.citiesDeps, <<s.citiesRef>>),
     handleCityClick   |-> useCallback(m.handleCityClick, m.citiesDeps, <<s.citiesRef>>),
     setSelectedCityId |-> useCallback(m.setSelectedCityId, m.citiesDeps, <<s.citiesRef>>),
     citiesDeps        |-> <<s.citiesRef>>]

\* dispatch(action), and the render it causes.
Dispatch(action) ==
    /\ state' = citiesReducer(state, action)
    /\ memo' = Render(memo, citiesReducer(state, action))
    /\ last' = [type |-> action.type, threw |-> FALSE]

\* A catch block that records the error and swallows it.
DispatchAndSwallow(action) == Dispatch(action)

\* dispatch(action) in a catch block that ends with `throw error`.
DispatchAndThrow(action) ==
    /\ state' = citiesReducer(state, action)
    /\ memo' = Render(memo, citiesReducer(state, action))
    /\ last' = [type |-> action.type, threw |-> TRUE]

\* Two dispatches in one synchronous run of a handler.
Dispatch2(a1, a2) ==
    /\ state' = citiesReducer(citiesReducer(state, a1), a2)
    /\ memo' = Render(Render(memo, citiesReducer(state, a1)),
                      citiesReducer(citiesReducer(state, a1), a2))
    /\ last' = [type |-> a2.type, threw |-> FALSE]

getCity(s, id) == Find(s.cities, parseInt(id))

selectedCityId(s) == IF s.currentCity = NoCity \/ s.currentCity.id = 0 THEN NoId ELSE s.currentCity.id

----------------------------------------------------------------------------
(* The remote store and the requests in flight *)

Lisbon == [id |-> 1, cityName |-> "Lisbon", lat |-> Num(38), lng |-> Num(-9)]

\* shape is what the body of a 2xx reply parses to: "array" is a JSON array
\* (data), "wrapper" an object whose `cities` member is the array data,
\* "object" an object without a `cities` member, "null" the JSON null, and
\* "malformed" a body that is not JSON.
Request(op) ==
    [op |-> op, phase |-> "sent", id |-> NoId, draft |-> NoCity, data |-> <<>>,
     shape |-> "array",
     qlat |-> Null, qlng |-> Null, mounted |-> FALSE, over |-> FALSE]

\* Whether fetchCities leaves its try block for the reply: !res.ok or a
\* rejected fetch, res.json() of a body that is not JSON, `.cities` of null.
FetchThrows(req) == req.phase # "ok" \/ req.shape \in {"malformed", "null"}

\* error.message of a failed request.
FailureMessage(req) ==
    IF req.phase = "network" THEN "Failed to fetch"
    ELSE IF req.phase = "ok" /\ req.shape = "malformed" THEN "Unexpected token"
    ELSE IF req.phase = "ok" /\ req.shape = "null" THEN "Cannot read properties of null"
    ELSE IF req.op = "GET" THEN "Failed to fetch cities"
    ELSE IF req.op = "POST" THEN "Failed to create city"
    ELSE "Failed to delete city"

\* const citiesArray = Array.isArray(data) ? data : data.cities || [];
citiesArray(req) ==
    IF req.shape = "array" THEN req.data
    ELSE IF req.shape = "wrapper" THEN req.data
    ELSE <<>>

\* The remote store answers request i: it applies it and replies 2xx, or
\* replies with an error status, or the exchange fails on the network.
ServerHandle(i) ==
    /\ net[i].phase = "sent"
    /\ \/ /\ net[i].op = "GET"
          /\ net' = [net EXCEPT ![i].phase = "ok", ![i].data = db]
          /\ UNCHANGED <<db, nextId>>
       \/ /\ net[i].op = "POST"
          /\ nextId <= MaxId
          /\ LET c == [JsonCity(net[i].draft) EXCEPT !.id = nextId]
             IN  /\ db' = Append(db, c)
                 /\ net' = [net EXCEPT ![i].phase = "ok", ![i].data = <<c>>]
          /\ nextId' = nextId + 1
       \/ /\ net[i].op = "DELETE"
          /\ Count(db, net[i].id) > 0
          /\ db' = Filter(db, net[i].id)
          /\ net' = [net EXCEPT ![i].phase = "ok"]
          /\ UNCHANGED nextId
       \/ /\ \E failure \in {"status", "network"} :
                net' = [net EXCEPT ![i].phase = failure]
          /\ UNCHANGED <<db, nextId>>
    /\ UNCHANGED <<geocode, auth, state, memo, effectDeps, effectRuns, timers, refetches, overlapped, map,
                   location, form, last>>

----------------------------------------------------------------------------
(* The route and the Form mounted on /app/form *)

ListPath == "/app/cities"
DetailPath == "/app/cities/:id"
FormPath == "/app/form"

Location(pathname, id, lat, lng) ==
    [pathname |-> pathname, id |-> id, lat |-> lat, lng |-> lng]

FormInit == [cityName |-> "", isSubmitting |-> FALSE, error |-> ""]

\* The synchronous part of Form's effect on [lat, lng]: reset, then validate.
fetchCityData(f, lat, lng) ==
    LET cleared == [f EXCEPT !.cityName = "", !.error = ""]
        latNum == Number(lat)
        lngNum == Number(lng)
    IN  IF lat = Null \/ lat = "" \/ lng = Null \/ lng = "" THEN cleared
        ELSE IF latNum = NaN \/ lngNum = NaN
             THEN [cleared EXCEPT !.error = "Invalid coordinates"]
        ELSE IF latNum[2] < -90 \/ latNum[2] > 90
             THEN [cleared EXCEPT !.error = "Latitude out of range"]
        ELSE IF lngNum[2] < -180 \/ lngNum[2] > 180
             THEN [cleared EXCEPT !.error = "Longitude out of range"]
        ELSE cleared

\* The Form after the location changed from old to new: unmounted off
\* /app/form, mounted afresh on arriving there, its effect re-run when it
\* stays and lat or lng changed.
FormAfter(f, old, new) ==
    IF new.pathname # FormPath THEN FormInit
    ELSE IF old.pathname # FormPath THEN fetchCityData(FormInit, new.lat, new.lng)
    ELSE IF old.lat # new.lat \/ old.lng # new.lng THEN fetchCityData(f, new.lat, new.lng)
    ELSE f

\* Requests whose submitting Form is unmounted by the change of location.
NetAfter(n, new) ==
    IF new.pathname = FormPath THEN n
    ELSE [i \in DOMAIN n |-> [n[i] EXCEPT !.mounted = FALSE]]

----------------------------------------------------------------------------
(* The Map component: useGeolocation and geoRequestedRef *)

\* geolocationPosition before any fix: useGeolocation(defaultPosition = null).
NoFix == <<>>

\* The Map after its first render.  position is the fix as <<lat, lng>> and
\* posRef the identity of that object; requests counts the pending
\* getCurrentPosition calls; supported is whether navigator.geolocation
\* exists; syncDeps are the dependencies the sync effect last ran with;
\* clickLng and lng are e.latlng.lng of a click and the handler's `let lng`;
\* alert is what the last alert() of the click handler showed; view is what
\* the Leaflet map was last told to show, cmds the commands it was given by
\* the last run of the viewport effects, centerDeps and fitDeps the
\* dependencies ChangeCenter's and FitBounds' effects last ran with.
MapInit ==
    [position |-> NoFix, posRef |-> 0, isLoading |-> FALSE, error |-> Null,
     geoRequested |-> FALSE, requests |-> 0, supported |-> TRUE,
     syncDeps |-> <<>>, clickLng |-> 0, lng |-> 0, alert |-> <<>>,
     view |-> <<>>, cmds |-> {}, centerDeps |-> <<>>, fitDeps |-> <<>>]

----------------------------------------------------------------------------
(* Authentication: FakeAuthContext, ProtectedRoute, Login *)

\* FAKE_USER_CREDENTIALS and FAKE_USER_DATA.
FakeEmail == "jack@example.com"
FakePassword == "qwerty"
FakeUser == [name |-> "Jack", email |-> FakeEmail]

\* user: null.
NoUser == [name |-> "", email |-> ""]

\* No location.state.
NoFrom == <<>>

\* initialState of the auth reducer, on a page whose URL is pathname and
\* search; Login's inputs are pre-filled; threw is whether the last login()
\* threw, logins how often login() has succeeded.
AuthInit(pathname, search) ==
    [user |-> NoUser, isAuthenticated |-> FALSE, pathname |-> pathname,
     search |-> search, from |-> NoFrom, email |-> FakeEmail,
     password |-> FakePassword, threw |-> FALSE, logins |-> 0]

\* The user is logged in and inside the application.
AuthSignedIn ==
    [AuthInit("/app/cities", "") EXCEPT !.user = FakeUser, !.isAuthenticated = TRUE]

----------------------------------------------------------------------------
(* The Form's reverse geocoding *)

\* The Form as mounted: countryName, emoji and isLoadingGeocoding; deps is
\* the [lat, lng] its effect last ran with, pending the requests sent to the
\* geocoder and not answered, oldest first, each with its coordinates.
GeocodeInit ==
    [countryName |-> "", emoji |-> "", isLoadingGeocoding |-> FALSE,
     deps |-> <<>>, pending |-> <<>>]

----------------------------------------------------------------------------
(* Init *)

\* The URLs the application is opened at.
EntryLocations ==
    { Location(ListPath, NoId, Null, Null),
      Location(FormPath, NoId, "20", "20"),
      Location(FormPath, NoId, "abc", "20") }

Init ==
    /\ state = initialState
    /\ memo = initialMemo
    /\ effectDeps = <<>>
    /\ effectRuns = 0
    /\ db \in {<<>>, <<Lisbon>>}
    /\ nextId = Len(db) + 1
    /\ net = <<>>
    /\ timers = <<>>
    /\ refetches = 0
    /\ overlapped = {}
    /\ map = MapInit
    /\ location \in EntryLocations
    /\ form = FormAfter(FormInit, Location(ListPath, NoId, Null, Null), location)
    /\ auth = AuthSignedIn
    /\ geocode = GeocodeInit
    /\ last = [type |-> "none", threw |-> FALSE]

----------------------------------------------------------------------------
(* The store's operations *)

\* fetchCities(): loading/started, then GET /cities.
fetchCities ==
    /\ Len(net) < MaxInFlight
    /\ Dispatch(Action("loading/started"))
    /\ net' = Append(net, Request("GET"))

\* useEffect(() => { fetchCities() }, [fetchCities]): runs after the first
\* render and after every render that changed fetchCities, before any other
\* handler.
EffectPending == effectDeps # <<memo.fetchCities>>

FetchEffect ==
    /\ EffectPending
    /\ effectRuns < MaxEffectRuns
    /\ fetchCities
    /\ effectDeps' = <<memo.fetchCities>>
    /\ effectRuns' = effectRuns + 1
    /\ UNCHANGED <<geocode, auth, db, nextId, timers, refetches, overlapped, map, location, form>>

\* A consumer calls the exposed fetchCities again.
Refetch ==
    /\ ~EffectPending
    /\ refetches < MaxRefetch
    /\ fetchCities
    /\ refetches' = refetches + 1
    /\ UNCHANGED <<geocode, auth, effectDeps, effectRuns, db, nextId, timers, overlapped, map,
                   location, form>>

\* fetchCities after its await: cities/loaded, or error/occurred in the catch.
FetchReply(i) ==
    /\ ~EffectPending
    /\ net[i].op = "GET"
    /\ net[i].phase # "sent"
    /\ IF ~FetchThrows(net[i])
       THEN Dispatch(Loaded(citiesArray(net[i])))
       ELSE Dispatch(Occurred(FailureMessage(net[i])))
    /\ net' = Remove(net, i)
    /\ UNCHANGED <<geocode, auth, effectDeps, effectRuns, db, nextId, timers, refetches, overlapped, map,
                   location, form>>

\* Where handleSubmit navigates once createCity has returned c.
CreatedLocation(c, req) ==
    Location(DetailPath, c.id,
             IF Truthy(c.lat) THEN NumToString(c.lat)
             ELSE IF req.qlat = Null THEN "null" ELSE req.qlat,
             IF Truthy(c.lng) THEN NumToString(c.lng)
             ELSE IF req.qlng = Null THEN "null" ELSE req.qlng)

\* createCity after its await, and handleSubmit after createCity: on success
\* city/created and the navigation to the new city; on failure error/occurred,
\* the re-throw, and the Form's own error.
CreateReply(i) ==
    /\ ~EffectPending
    /\ net[i].op = "POST"
    /\ net[i].phase # "sent"
    /\ IF net[i].phase = "ok"
       THEN LET c == net[i].data[1]
                to == IF c.id # 0 THEN CreatedLocation(c, net[i]) ELSE location
            IN  /\ Dispatch(Created(c))
                /\ overlapped' = IF net[i].over THEN overlapped \cup {c.id}
                                 ELSE overlapped
                /\ location' = to
                /\ form' = FormAfter(IF net[i].mounted
                                     THEN [form EXCEPT !.isSubmitting = FALSE]
                                     ELSE form, location, to)
                /\ net' = NetAfter(Remove(net, i), to)
       ELSE /\ DispatchAndThrow(Occurred(FailureMessage(net[i])))
            /\ form' = IF net[i].mounted
                       THEN [form EXCEPT !.error = "Failed to add city",
                                         !.isSubmitting = FALSE]
                       ELSE form
            /\ net' = Remove(net, i)
            /\ UNCHANGED <<location, overlapped>>
    /\ UNCHANGED <<geocode, auth, effectDeps, effectRuns, db, nextId, timers, refetches, map>>

\* deleteCity after its await: city/deleted, or error/occurred and the re-throw.
DeleteReply(i) ==
    /\ ~EffectPending
    /\ net[i].op = "DELETE"
    /\ net[i].phase # "sent"
    /\ IF net[i].phase = "ok"
       THEN Dispatch(Deleted(net[i].id))
       ELSE DispatchAndThrow(Occurred(FailureMessage(net[i])))
    /\ net' = Remove(net, i)
    /\ UNCHANGED <<geocode, auth, effectDeps, effectRuns, db, nextId, timers, refetches, overlapped, map,
                   location, form>>

\* handleCityClick(cityId) up to its await: city/loading-started, the lookup,
\* then the settle delay, or error/occurred when the city is not found.
handleCityClick(cityId) ==
    LET city == Find(state.cities, parseInt(cityId))
    IN  IF city # Undefined
        THEN /\ Len(timers) < MaxTimers
             /\ Dispatch(Action("city/loading-started"))
             /\ timers' = Append(timers, city)
        ELSE /\ Dispatch2(Action("city/loading-started"), Occurred("City not found"))
             /\ UNCHANGED timers

\* handleCityClick after the delay: city/selected with the city found before it.
SettleDelay(j) ==
    /\ ~EffectPending
    /\ Dispatch(Selected(timers[j]))
    /\ timers' = Remove(timers, j)
    /\ UNCHANGED <<geocode, auth, effectDeps, effectRuns, db, nextId, net, refetches, overlapped, map, location, form>>

----------------------------------------------------------------------------
(* The consumers: CityItem, the Form, the back buttons *)

\* CityList shows its items on /app/cities once loading is over.
CityListShown == location.pathname = ListPath /\ ~state.isLoading

\* A change of location, with what it does to the Form and to the requests
\* the Form has pending.
Navigate(to) ==
    /\ location' = to
    /\ form' = FormAfter(form, location, to)
    /\ net' = NetAfter(net, to)

\* The <Link> of CityItem.
CityItemLink(city) ==
    IF Truthy(city.lat) /\ Truthy(city.lng)
    THEN Location(DetailPath, city.id, NumToString(city.lat), NumToString(city.lng))
    ELSE Location(DetailPath, city.id, Null, Null)

\* A click on item k of the list: handleClick, then the link is followed.
CityItemClick(k) ==
    /\ ~EffectPending
    /\ CityListShown
    /\ handleCityClick(state.cities[k].id)
    /\ Navigate(CityItemLink(state.cities[k]))
    /\ UNCHANGED <<geocode, auth, effectDeps, effectRuns, db, nextId, refetches, overlapped, map>>

\* deleteCity(id) up to its await: DELETE /cities/:id.
deleteCity(id) ==
    /\ Len(net) < MaxInFlight
    /\ net' = Append(net, [Request("DELETE") EXCEPT !.id = id])

\* The delete button of item k, confirmed.
CityItemDelete(k) ==
    /\ ~EffectPending
    /\ CityListShown
    /\ deleteCity(state.cities[k].id)
    /\ UNCHANGED <<geocode, auth, state, memo, effectDeps, effectRuns, db, nextId, timers,
                   refetches, overlapped, map, location, form, last>>

\* BackButton (in the Form) and the back button of the City page.
BackButton ==
    /\ ~EffectPending
    /\ location.pathname \in {FormPath, DetailPath}
    /\ Navigate(Location(ListPath, NoId, Null, Null))
    /\ UNCHANGED <<geocode, auth, state, memo, effectDeps, effectRuns, db, nextId, timers,
                   refetches, overlapped, map, last>>

\* Where the user clicks on the map.
ClickLats == {20}
ClickLngs == {20, 380}

\* One step of 360 at most, where the handler loops.
NormalizeOnce(lng) ==
    IF lng > 180 THEN lng - 360
    ELSE IF lng < -180 THEN lng + 360
    ELSE lng

\* The longitude brought into -180..180 by steps of 360.
RECURSIVE Normalize(_)
Normalize(lng) ==
    IF lng > 180 THEN Normalize(lng - 360)
    ELSE IF lng < -180 THEN Normalize(lng + 360)
    ELSE lng

\* A click handler that writes the longitude as clicked.
DetectClickRaw(lat, lng) ==
    /\ ~EffectPending
    /\ lat >= -90 /\ lat <= 90
    /\ Navigate(Location(FormPath, NoId, ToString(lat), ToString(lng)))
    /\ UNCHANGED <<geocode, auth, state, memo, effectDeps, effectRuns, db, nextId, timers,
                   refetches, overlapped, map, last>>

\* A click handler without the check of the latitude.
DetectClickAnyLat(lat, lng) ==
    /\ ~EffectPending
    /\ Navigate(Location(FormPath, NoId, ToString(lat), ToString(Normalize(lng))))
    /\ UNCHANGED <<geocode, auth, state, memo, effectDeps, effectRuns, db, nextId, timers,
                   refetches, overlapped, map, last>>

\* DetectClick: a click on the map opens the Form at the clicked position, or
\* moves the open Form there.
DetectClick(lat, lng) ==
    /\ ~EffectPending
    /\ IF lat < -90 \/ lat > 90
       THEN /\ map' = [map EXCEPT !.alert = <<"Invalid latitude", lat>>]
            /\ UNCHANGED <<location, form, net>>
       ELSE /\ Navigate(Location(FormPath, NoId, ToString(lat), ToString(Normalize(lng))))
            /\ UNCHANGED map
    /\ UNCHANGED <<geocode, auth, state, memo, effectDeps, effectRuns, db, nextId, timers,
                   refetches, overlapped, last>>

CityNames == {"Rome"}

\* The user types into the city name input.
TypeCityName(name) ==
    /\ ~EffectPending
    /\ location.pathname = FormPath
    /\ form.cityName # name
    /\ form' = [form EXCEPT !.cityName = name]
    /\ UNCHANGED <<geocode, auth, state, memo, effectDeps, effectRuns, db, nextId, net, timers,
                   refetches, overlapped, map, location, last>>

\* The createCity calls that have not returned, and the same calls once
\* another createCity call starts.
Posts(n) == {i \in DOMAIN n : n[i].op = "POST"}
Overlapping(n) == [i \in DOMAIN n |-> IF i \in Posts(n)
                                      THEN [n[i] EXCEPT !.over = TRUE] ELSE n[i]]

\* createCity(newCity) up to its await: POST /cities.
createCity(newCity) ==
    /\ Len(net) < MaxInFlight
    /\ net' = Append(Overlapping(net),
                     [Request("POST") EXCEPT !.draft = newCity,
                          !.qlat = location.lat, !.qlng = location.lng,
                          !.mounted = TRUE, !.over = Posts(net) # {}])

\* An Add button that can be pressed whatever the Form is doing.
AddAlwaysEnabled(f, g) == TRUE

\* <Button onClick={handleSubmit} disabled={isSubmitting || isLoadingGeocoding}>.
AddEnabled(f, g) == ~(f.isSubmitting \/ g.isLoadingGeocoding)

\* handleSubmit up to its await, called by the Add button.
HandleSubmit ==
    /\ ~EffectPending
    /\ location.pathname = FormPath
    /\ AddEnabled(form, geocode)
    /\ form.cityName # ""
    /\ createCity([id |-> NoId, cityName |-> form.cityName,
                   lat |-> Number(location.lat), lng |-> Number(location.lng)])
    /\ form' = [form EXCEPT !.isSubmitting = TRUE, !.error = ""]
    /\ UNCHANGED <<geocode, auth, state, memo, effectDeps, effectRuns, db, nextId, timers,
                   refetches, overlapped, map, location, last>>

----------------------------------------------------------------------------
(* The specification *)

Next ==
    \/ FetchEffect
    \/ Refetch
    \/ \E i \in DOMAIN net : ServerHandle(i)
    \/ \E i \in DOMAIN net : FetchReply(i)
    \/ \E i \in DOMAIN net : CreateReply(i)
    \/ \E i \in DOMAIN net : DeleteReply(i)
    \/ \E j \in DOMAIN timers : SettleDelay(j)
    \/ \E k \in DOMAIN state.cities : CityItemClick(k)
    \/ \E k \in DOMAIN state.cities : CityItemDelete(k)
    \/ BackButton
    \/ \E name \in CityNames : TypeCityName(name)
    \/ HandleSubmit

Spec == Init /\ [][Next]_vars

\* The runs in which the user works with the map and the Form only: cities
\* are fetched and created, the Form is left and opened again by a click on
\* the map.
NextForm ==
    \/ FetchEffect
    \/ Refetch
    \/ \E i \in DOMAIN net : ServerHandle(i)
    \/ \E i \in DOMAIN net : FetchReply(i)
    \/ \E i \in DOMAIN net : CreateReply(i)
    \/ BackButton
    \/ \E lat \in ClickLats, lng \in ClickLngs : DetectClick(lat, lng)
    \/ \E name \in CityNames : TypeCityName(name)
    \/ HandleSubmit

SpecForm == Init /\ [][NextForm]_vars

----------------------------------------------------------------------------
(* Properties of the store *)

\* The action types that leave `cities` alone.
UnrelatedTypes ==
    {"loading/started", "loading/finished", "city/loading-started",
     "city/loading-finished", "city/selected", "city/deselected",
     "error/occurred", "error/cleared"}

\* C1: a render after a transition that leaves the identity of `cities`
\* unchanged (any of UnrelatedTypes) hands out the same getCity,
\* setSelectedCityId and handleCityClick as the render before it, and
\* createCity, deleteCity and fetchCities are the same functions after every
\* render of the provider.
StableFunctions ==
    [][ /\ (last'.type \in UnrelatedTypes /\ <<state, last>>' # <<state, last>>)
            => state'.citiesRef = state.citiesRef
        /\ state'.citiesRef = state.citiesRef
            => /\ memo'.getCity = memo.getCity
               /\ memo'.setSelectedCityId = memo.setSelectedCityId
               /\ memo'.handleCityClick = memo.handleCityClick
        /\ memo'.createCity = memo.createCity
        /\ memo'.deleteCity = memo.deleteCity
        /\ memo'.fetchCities = memo.fetchCities ]_vars

\* A selection has been dispatched over a loaded collection.
StableFunctionsWitness ==
    /\ last.type = "city/selected"
    /\ state.cities # <<>>
    /\ memo.citiesDeps = <<state.citiesRef>>

\* C2: the mount effect runs once: after its first run it is never pending
\* again, whatever has been dispatched since.
MountFetchOnce ==
    /\ effectRuns <= 1
    /\ effectRuns = 1 => ~EffectPending

\* The effect has run, and the collection has since been loaded and changed.
MountFetchOnceWitness ==
    /\ effectRuns = 1
    /\ last.type \in {"city/created", "city/deleted"}

\* C3: a selected city is a member of the collection.
SelectionInCollection ==
    state.currentCity # NoCity => Count(state.cities, state.currentCity.id) > 0

\* How often the record c occurs in cs.
Occurrences(cs, c) == Cardinality({k \in DOMAIN cs : cs[k] = c})

\* C4: when a successful delete of id is applied, the selection becomes null
\* if it is the city with that id and is kept otherwise, no city with that id
\* remains, and every other city remains as often as it was there.
DeleteRemovesExactlyId ==
    [][ \A i \in DOMAIN net :
          (DeleteReply(i) /\ net[i].phase = "ok") =>
            LET id == net[i].id
            IN  /\ state'.currentCity =
                      IF state.currentCity.id = id THEN NoCity
                      ELSE state.currentCity
                /\ Count(state'.cities, id) = 0
                /\ Len(state'.cities) = Len(state.cities) - Count(state.cities, id)
                /\ \A k \in DOMAIN state.cities :
                      state.cities[k].id # id =>
                        Occurrences(state'.cities, state.cities[k])
                          = Occurrences(state.cities, state.cities[k]) ]_vars

\* A delete has been applied that kept the selection and another city.
DeleteRemovesExactlyIdWitness ==
    /\ last.type = "city/deleted"
    /\ state.currentCity # NoCity
    /\ state.cities # <<>>

\* C5: when a failed fetchCities reports, the error is its message,
\* isLoading is false and the collection is the one held before.
FailedFetchKeepsCities ==
    [][ \A i \in DOMAIN net :
          (FetchReply(i) /\ net[i].phase \notin {"sent", "ok"}) =>
            /\ state'.error \in {"Failed to fetch cities", "Failed to fetch"}
            /\ state'.error = FailureMessage(net[i])
            /\ ~state'.isLoading
            /\ state'.cities = state.cities
            /\ state'.citiesRef = state.citiesRef ]_vars

\* A fetch has failed while the collection held cities.
FailedFetchKeepsCitiesWitness ==
    /\ last.type = "error/occurred"
    /\ state.error = "Failed to fetch cities"
    /\ state.cities # <<>>
    /\ ~state.isLoading

\* C6: when a successful createCity is applied, getCity of the returned id
\* is the returned city, and the returned city is the draft with the id the
\* remote store assigned.
CreatedCityIsDraftWithId ==
    [][ \A i \in DOMAIN net :
          (CreateReply(i) /\ net[i].phase = "ok") =>
            LET c == net[i].data[1]
            IN  /\ getCity(state', c.id) = c
                /\ c = [net[i].draft EXCEPT !.id = c.id] ]_vars

\* C7: when a failed createCity or deleteCity reports, the error is its
\* message, the error is thrown on to the caller, the collection, the
\* selection and the location are what they were, and a mounted Form shows
\* its own error on /app/form; the calls themselves change nothing in the
\* store before the reply.
FailedMutationChangesNothing ==
    [][ /\ \A i \in DOMAIN net :
             ((CreateReply(i) \/ DeleteReply(i)) /\ net[i].phase \notin {"sent", "ok"}) =>
               /\ state'.error = FailureMessage(net[i])
               /\ state'.error \in {"Failed to create city", "Failed to delete city",
                                    "Failed to fetch"}
               /\ last'.threw
               /\ state'.cities = state.cities
               /\ state'.currentCity = state.currentCity
               /\ location' = location
               /\ (net[i].op = "POST" /\ net[i].mounted) =>
                     /\ location'.pathname = FormPath
                     /\ form'.error = "Failed to add city"
                     /\ ~form'.isSubmitting
        /\ (HandleSubmit \/ \E k \in DOMAIN state.cities : CityItemDelete(k))
             => state' = state ]_vars

\* A create has failed under the Form that submitted it, over a collection
\* that holds cities.
FailedMutationChangesNothingWitness ==
    /\ last = [type |-> "error/occurred", threw |-> TRUE]
    /\ state.error = "Failed to create city"
    /\ form.error = "Failed to add city"
    /\ location.pathname = FormPath
    /\ state.cities # <<>>

\* The ids whose deleteCity has succeeded: the remote store has assigned
\* them, holds them no more, and the reply of the delete has been applied.
DeletedIds ==
    {id \in 1..(nextId - 1) :
        /\ Count(db, id) = 0
        /\ \A i \in DOMAIN net :
              ~(net[i].op = "DELETE" /\ net[i].id = id /\ net[i].phase = "ok")}

\* C8: once deleteCity(id) has succeeded, getCity(id) is undefined.
DeletedStaysGone ==
    \A id \in DeletedIds : getCity(state, id) = Undefined

\* C9: two cities returned by overlapping createCity calls, and not deleted
\* since, are each in the collection exactly once.
OverlappingCreatesBothOnce ==
    \A a, b \in overlapped :
        (a # b /\ Count(db, a) > 0 /\ Count(db, b) > 0) =>
            /\ Count(state.cities, a) = 1
            /\ Count(state.cities, b) = 1

----------------------------------------------------------------------------
(* The reducer on its own: any action, dispatched in any state *)

MaxCities == 2

KnownTypes ==
    {"cities/loaded", "city/created", "city/deleted", "loading/started",
     "loading/finished", "city/loading-started", "city/loading-finished",
     "city/selected", "city/deselected", "error/occurred", "error/cleared"}

\* Types no case of the reducer names.
OtherTypes == {"city/updated", "cities/cleared"}

Rome == [id |-> 2, cityName |-> "Rome", lat |-> Num(20), lng |-> Num(20)]

Actions ==
    {Loaded(cs) : cs \in {<<>>, <<Lisbon>>}}
      \cup {Created(c) : c \in {Lisbon, Rome}}
      \cup {Deleted(id) : id \in 1..MaxId}
      \cup {Selected(c) : c \in {Lisbon, Rome}}
      \cup {Occurred("City not found")}
      \cup {Action(type) : type \in (KnownTypes \cup OtherTypes)}

\* dispatch(action) of useReducer: the state the reducer returns, or the
\* exception it throws.
Reduce(action) ==
    /\ action.type = "city/created" => Len(state.cities) < MaxCities
    /\ IF citiesReducer(state, action) = Thrown
       THEN /\ last' = [type |-> action.type, threw |-> TRUE]
            /\ UNCHANGED <<state, memo>>
       ELSE Dispatch(action)
    /\ UNCHANGED <<geocode, auth, effectDeps, effectRuns, db, nextId, net, timers, refetches,
                   overlapped, map, location, form>>

NextReducer == \E action \in Actions : Reduce(action)

SpecReducer == Init /\ [][NextReducer]_vars

\* C10, as the code has it: the reducer accepts the eleven types of
\* KnownTypes; an action of any other type throws and leaves the state as it
\* was.
ReducerAcceptsKnownTypes ==
    [][ \A action \in Actions :
          Reduce(action) =>
            IF action.type \in KnownTypes
            THEN ~last'.threw /\ state' = citiesReducer(state, action)
            ELSE last'.threw /\ state' = state ]_vars

\* An action of an unnamed type has been thrown out of a populated state.
ReducerAcceptsKnownTypesWitness ==
    /\ last.threw
    /\ last.type \in OtherTypes
    /\ state.cities # <<>>

\* The nine types the claim lists.
ListedTypes ==
    {"cities/loaded", "city/created", "city/deleted", "loading/started",
     "city/loading-started", "city/selected", "city/deselected",
     "error/occurred", "error/cleared"}

\* C10, as stated: the reducer accepts the nine types of ListedTypes; an
\* action of any other type throws and leaves the state as it was.
ReducerAcceptsListedTypes ==
    [][ \A action \in Actions :
          Reduce(action) =>
            IF action.type \in ListedTypes
            THEN ~last'.threw
            ELSE last'.threw /\ state' = state ]_vars

----------------------------------------------------------------------------
(* The error field and selection by id *)

\* C11: a non-null error becomes null only by error/cleared or by a fetch
\* cycle (loading/started, cities/loaded); no create, delete, select or
\* deselect and no timer clears it.
ErrorStaysUntilCleared ==
    [][ (state.error # Null /\ state'.error = Null)
          => last'.type \in {"error/cleared", "loading/started", "cities/loaded"} ]_vars


\* The ids a consumer passes to the store: null, or the id of a city that is
\* or is not in the collection.
SelectIds == {NoId} \cup (1..MaxId)

\* setSelectedCityId(id): city/deselected for null, city/selected for a city
\* of the collection, and no dispatch at all for any other id.
setSelectedCityId(id) ==
    LET city == Find(state.cities, parseInt(id))
    IN  IF id = NoId THEN Dispatch(Action("city/deselected"))
        ELSE IF city # Undefined THEN Dispatch(Selected(city))
        ELSE /\ UNCHANGED <<state, memo>>
             /\ last' = [type |-> "none", threw |-> FALSE]

\* A consumer calls the exposed setSelectedCityId.
SetSelectedCall(id) ==
    /\ ~EffectPending
    /\ setSelectedCityId(id)
    /\ UNCHANGED <<geocode, auth, effectDeps, effectRuns, db, nextId, net, timers, refetches,
                   overlapped, map, location, form>>

\* A consumer calls the exposed handleCityClick with any id.
ClickCall(id) ==
    /\ ~EffectPending
    /\ handleCityClick(id)
    /\ UNCHANGED <<geocode, auth, effectDeps, effectRuns, db, nextId, net, refetches,
                   overlapped, map, location, form>>

\* The runs in which the collection is fetched and cities are selected
\* through the two functions the store exposes for it.
NextSelect ==
    \/ FetchEffect
    \/ Refetch
    \/ \E i \in DOMAIN net : ServerHandle(i)
    \/ \E i \in DOMAIN net : FetchReply(i)
    \/ \E j \in DOMAIN timers : SettleDelay(j)
    \/ \E id \in 1..MaxId : ClickCall(id)
    \/ \E id \in SelectIds : SetSelectedCall(id)

SpecSelect == Init /\ [][NextSelect]_vars

\* C12: a call of handleCityClick or of setSelectedCityId with an id that is
\* not in `cities` leaves a message in `error` and leaves currentCity as it
\* was.
UnknownIdSurfacesError ==
    [][ \A id \in 1..MaxId :
          ((ClickCall(id) \/ SetSelectedCall(id)) /\ Find(state.cities, id) = Undefined)
            => (state'.error # Null /\ state'.currentCity = state.currentCity) ]_vars

----------------------------------------------------------------------------
(* The Map: resolved position, geolocation, the sync effect *)

MaxRequests == 2

\* The positions the device reports.
Fixes == {<<10, 20>>, <<38, -9>>}

\* `maplat && maplng` on values of searchParams.get: null and "" are falsy,
\* every other string, "0" included, is truthy.
Present(s) == s # Null /\ s # ""

DefaultCenter == <<Num(40), Num(0)>>

\* A resolution that prefers the fix to the query coordinates.
mapPositionFixFirst(loc, position) ==
    IF position # NoFix THEN <<Num(position[1]), Num(position[2])>>
    ELSE IF Present(loc.lat) /\ Present(loc.lng)
         THEN <<Number(loc.lat), Number(loc.lng)>>
         ELSE DefaultCenter

\* mapPosition: the query coordinates, else the default on /app/cities, else
\* the fix, else the default.
mapPosition(loc, position) ==
    IF Present(loc.lat) /\ Present(loc.lng) THEN <<Number(loc.lat), Number(loc.lng)>>
    ELSE IF loc.pathname = ListPath THEN DefaultCenter
    ELSE IF position # NoFix THEN <<Num(position[1]), Num(position[2])>>
    ELSE DefaultCenter

\* The dependencies of the sync effect in the current render.
SyncDeps == <<map.posRef, location.lat, location.lng, location.pathname>>

\* The sync effect has to run: its dependencies changed.  Without a fix the
\* effect does nothing, so its runs are left out until there is one.
SyncPending == map.position # NoFix /\ map.syncDeps # SyncDeps

\* A button that can be pressed whatever isLoadingPosition is.
ButtonAlwaysEnabled(m) == TRUE

\* <Button disabled={isLoadingPosition}>.
ButtonEnabled(m) == ~m.isLoading

\* getPosition(): the error when geolocation is missing, else isLoading and
\* a getCurrentPosition call.
getPosition(m) ==
    IF ~m.supported
    THEN [m EXCEPT !.error = "Your browser does not support geolocation"]
    ELSE [m EXCEPT !.isLoading = TRUE, !.requests = @ + 1]

\* The button's onClick: the flag is set, then getPosition().
GeoButton ==
    /\ ~EffectPending /\ ~SyncPending
    /\ ButtonEnabled(map)
    /\ map.requests < MaxRequests
    /\ map' = getPosition([map EXCEPT !.geoRequested = TRUE])
    /\ UNCHANGED <<geocode, auth, state, memo, effectDeps, effectRuns, db, nextId, net, timers,
                   refetches, overlapped, location, form, last>>

\* getCurrentPosition's success callback.
GeoFix(fix) ==
    /\ ~EffectPending /\ ~SyncPending
    /\ map.requests > 0
    /\ map' = [map EXCEPT !.position = fix, !.posRef = 1 - @,
                          !.isLoading = FALSE, !.requests = @ - 1]
    /\ UNCHANGED <<geocode, auth, state, memo, effectDeps, effectRuns, db, nextId, net, timers,
                   refetches, overlapped, location, form, last>>

\* getCurrentPosition's error callback.
GeoFail ==
    /\ ~EffectPending /\ ~SyncPending
    /\ map.requests > 0
    /\ map' = [map EXCEPT !.error = "User denied Geolocation",
                          !.isLoading = FALSE, !.requests = @ - 1]
    /\ UNCHANGED <<geocode, auth, state, memo, effectDeps, effectRuns, db, nextId, net, timers,
                   refetches, overlapped, location, form, last>>

\* The condition under which the sync effect writes the fix to the URL.
SyncWrites ==
    /\ location.pathname = FormPath
    /\ map.position # NoFix
    /\ map.geoRequested \/ (~Present(location.lat) /\ ~Present(location.lng))

\* Where the sync effect's setSearchParams and navigate lead.
FixLocation == Location(FormPath, NoId, ToString(map.position[1]), ToString(map.position[2]))

\* A sync effect that writes the fix and leaves geoRequestedRef set.
SyncEffectKeepsFlag ==
    /\ SyncPending
    /\ IF SyncWrites
       THEN /\ Navigate(FixLocation)
            /\ map' = [map EXCEPT !.syncDeps = SyncDeps]
       ELSE /\ map' = [map EXCEPT !.syncDeps = SyncDeps]
            /\ UNCHANGED <<location, form, net>>
    /\ UNCHANGED <<geocode, auth, state, memo, effectDeps, effectRuns, db, nextId, timers,
                   refetches, overlapped, last>>

\* The sync effect: on /app/form, with a fix, when the flag is set or there
\* are no query coordinates, the fix is written to the URL and the flag reset.
SyncEffect ==
    /\ SyncPending
    /\ IF SyncWrites
       THEN /\ Navigate(FixLocation)
            /\ map' = [map EXCEPT !.geoRequested = FALSE, !.syncDeps = SyncDeps]
       ELSE /\ map' = [map EXCEPT !.syncDeps = SyncDeps]
            /\ UNCHANGED <<location, form, net>>
    /\ UNCHANGED <<geocode, auth, state, memo, effectDeps, effectRuns, db, nextId, timers,
                   refetches, overlapped, last>>

\* Where the user clicks, the grey area beyond the poles included.
MapClickLats == ClickLats \cup {91, -91}

\* The URLs the application is opened at when the map is what is looked at.
MapEntryLocations ==
    { Location(ListPath, NoId, Null, Null),
      Location(ListPath, NoId, "20", "20"),
      Location(DetailPath, 1, Null, Null),
      Location(DetailPath, 1, "38", "-9"),
      Location(FormPath, NoId, Null, Null),
      Location(FormPath, NoId, "0", "0"),
      Location(FormPath, NoId, "20", Null),
      Location(FormPath, NoId, "", "20"),
      Location(FormPath, NoId, "abc", "20") }

InitMap ==
    /\ state = initialState
    /\ memo = initialMemo
    /\ effectDeps = <<>>
    /\ effectRuns = 0
    /\ db = <<Lisbon>>
    /\ nextId = Len(db) + 1
    /\ net = <<>>
    /\ timers = <<>>
    /\ refetches = 0
    /\ overlapped = {}
    /\ \E supported \in BOOLEAN : map = [MapInit EXCEPT !.supported = supported]
    /\ location \in MapEntryLocations
    /\ form = FormAfter(FormInit, Location(ListPath, NoId, Null, Null), location)
    /\ auth = AuthSignedIn
    /\ geocode = GeocodeInit
    /\ last = [type |-> "none", threw |-> FALSE]

\* The runs in which the user works with the map: the button, the answers of
\* the device, clicks on the map, the way back to the list.
NextMap ==
    \/ FetchEffect
    \/ GeoButton
    \/ \E fix \in Fixes : GeoFix(fix)
    \/ GeoFail
    \/ SyncEffect
    \/ ~SyncPending /\ \E lat \in MapClickLats, lng \in ClickLngs : DetectClick(lat, lng)
    \/ ~SyncPending /\ BackButton

SpecMap == InitMap /\ [][NextMap]_vars

ClickCoords == {<<ToString(lat), ToString(Normalize(lng))>> : lat \in ClickLats, lng \in ClickLngs}

\* The sync effect has already run with the fix the Map holds: what changed
\* since is the URL, so the fix is older than the last change of the URL.
FixSeen == map.position # NoFix /\ map.syncDeps # <<>> /\ map.syncDeps[1] = map.posRef

\* C14: the coordinates a click on the map wrote are not overwritten by a fix
\* that had arrived before that click: a run of the sync effect that finds
\* a click's coordinates and an older fix leaves the URL as it is.
ClickSurvivesOlderFix ==
    [][ ( /\ SyncEffect
          /\ location.pathname = FormPath
          /\ <<location.lat, location.lng>> \in ClickCoords
          /\ FixSeen )
          => location' = location ]_vars

\* C15: the flag of an explicit request is cleared when that request
\* completes, by a fix or by a failure, on every route: once no request is
\* in flight and the sync effect has run, the flag is not set any more.
FlagClearedOnCompletion ==
    (map.supported /\ map.geoRequested) => (map.requests > 0 \/ SyncPending)

\* C16: on every route, with no query coordinates, a press of the button
\* that is answered by a fix ends with the fix in the URL on /app/form: the
\* run of the sync effect for that fix leads there.
ButtonFixOpensForm ==
    [][ ( /\ SyncEffect
          /\ map.geoRequested
          /\ ~FixSeen
          /\ ~Present(location.lat) /\ ~Present(location.lng) )
          => location' = FixLocation ]_vars

GeoFailureSurfacesInStore ==
    [][ (GeoFail \/ (GeoButton /\ ~map.supported))
          => /\ state'.error # Null
             /\ mapPosition(location', map'.position) = mapPosition(location, map.position)
             /\ location' = location ]_vars

\* C19: a valid click on the map at (lat, lng) on /app/form puts the clicked
\* coordinate, rounded and with the longitude normalised, into the URL's lat
\* and lng and keeps the Form that is open; on any other route it navigates
\* to /app/form with that coordinate, where a new Form starts.  The clicks
\* of the model are at whole degrees, which the rounding to six decimals
\* leaves as they are.
ClickWritesCoordinate ==
    [][ \A lat \in ClickLats, lng \in ClickLngs :
          DetectClick(lat, lng)
            => /\ location' = Location(FormPath, NoId, ToString(lat), ToString(Normalize(lng)))
               /\ location.pathname = FormPath
                    => form' \in {form, fetchCityData(form, location'.lat, location'.lng)}
               /\ location.pathname # FormPath
                    => form' = fetchCityData(FormInit, location'.lat, location'.lng) ]_vars

\* A click has opened the Form from another route, or moved the open Form.
ClickWritesCoordinateWitness ==
    /\ location = Location(FormPath, NoId, "20", "20")
    /\ map.syncDeps # <<>>
    /\ map.syncDeps[4] = FormPath
    /\ map.syncDeps[2] # "20"

----------------------------------------------------------------------------
(* The longitude normalisation of the click handler, on its own *)

MaxLng == 900

\* A click whose e.latlng.lng is any whole number of degrees up to MaxLng
\* either way; the map can be dragged round the world more than once.
InitNormalize ==
    /\ state = initialState
    /\ memo = initialMemo
    /\ effectDeps = <<>>
    /\ effectRuns = 0
    /\ db = <<>>
    /\ nextId = 1
    /\ net = <<>>
    /\ timers = <<>>
    /\ refetches = 0
    /\ overlapped = {}
    /\ \E clickLng \in -MaxLng..MaxLng : map = [MapInit EXCEPT !.clickLng = clickLng]
    /\ location = Location(ListPath, NoId, Null, Null)
    /\ form = FormInit
    /\ auth = AuthSignedIn
    /\ geocode = GeocodeInit
    /\ last = [type |-> "none", threw |-> FALSE]

\* `let lng = latlng.lng` and the two while loops.
NormalizeClick ==
    /\ map' = [map EXCEPT !.lng = Normalize(map.clickLng)]
    /\ UNCHANGED <<geocode, auth, state, memo, effectDeps, effectRuns, db, nextId, net, timers,
                   refetches, overlapped, location, form, last>>

NextNormalize == NormalizeClick

SpecNormalize == InitNormalize /\ [][NextNormalize]_vars

\* C20: for every clicked longitude the normalisation ends with a value in
\* -180..180 that differs from the clicked one by a multiple of 360, and a
\* value already in -180..180 stays as it is; 190 gives -170, -200 gives 160
\* and 45 gives 45.
NormalizeWraps ==
    [][ NormalizeClick
          => /\ map'.lng >= -180 /\ map'.lng <= 180
             /\ (map'.lng - map.clickLng) % 360 = 0
             /\ (map.clickLng >= -180 /\ map.clickLng <= 180) => map'.lng = map.clickLng
             /\ map.clickLng = 190 => map'.lng = -170
             /\ map.clickLng = -200 => map'.lng = 160
             /\ map.clickLng = 45 => map'.lng = 45 ]_vars

\* A longitude more than one turn away has been normalised.
NormalizeWrapsWitness ==
    /\ map.clickLng = 750
    /\ map.lng = 30

----------------------------------------------------------------------------
(* Rejected clicks, the Form's validation, the viewport *)

\* C21: a click on the map whose latitude is outside -90..90 is rejected:
\* the URL and with it the route, the store, the Form and the requests in
\* flight are what they were.
BadLatitudeRejected ==
    [][ \A lat \in MapClickLats, lng \in ClickLngs :
          (DetectClick(lat, lng) /\ (lat < -90 \/ lat > 90))
            => UNCHANGED <<location, state, memo, form, net, db, last>> ]_vars

\* A click beyond the pole has been rejected on the open Form.
BadLatitudeRejectedWitness ==
    /\ map.alert = <<"Invalid latitude", 91>>
    /\ location.pathname = FormPath

\* A number that is finite and within lo..hi.
InRange(v, lo, hi) == v[1] = "number" /\ v[2] >= lo /\ v[2] <= hi

\* C22: no createCity POST is made with malformed or out-of-range
\* coordinates: every city handed to the store has a latitude that is a
\* number in -90..90 and a longitude that is a number in -180..180.
PostsCarryValidCoordinates ==
    \A i \in DOMAIN net :
        net[i].op = "POST"
          => InRange(net[i].draft.lat, -90, 90) /\ InRange(net[i].draft.lng, -180, 180)

----------------------------------------------------------------------------
(* The viewport: MapContainer, ChangeCenter, FitBounds *)

\* What the Leaflet map is told to show.
View(kind, center, zoom, points, padding) ==
    [kind |-> kind, center |-> center, zoom |-> zoom, points |-> points,
     padding |-> padding]

\* <MapContainer center={mapPosition} zoom={13}>: read once, on mount.
InitialView(loc, m) == View("initial", mapPosition(loc, m.position), 13, {}, 0)

\* zoomLevel of ChangeCenter: 13 on /app/cities/:id, 6 elsewhere.
zoomLevel(loc) == IF loc.pathname = DetailPath THEN 13 ELSE 6

\* The identity of the mapPosition array: useMemo makes a new one whenever
\* maplat, maplng, geolocationPosition or pathname changed.
PositionRef(loc, m) == <<loc.lat, loc.lng, m.posRef, loc.pathname, loc.id>>

\* [position, zoomLevel, map, isCitiesListPage]; the position with its value.
CenterDeps(loc, m) ==
    [ref |-> PositionRef(loc, m), value |-> mapPosition(loc, m.position),
     zoom |-> zoomLevel(loc), isList |-> loc.pathname = ListPath]

\* [cities, pathname, map].
FitDeps(loc, s) == <<s.citiesRef, loc.pathname, loc.id>>

\* A ChangeCenter whose effect does not look at the route.
ChangeCenterEverywhere(m, loc) ==
    [m EXCEPT !.view = View("setView", mapPosition(loc, m.position), zoomLevel(loc), {}, 0),
              !.cmds = @ \cup {"setView"}]

\* ChangeCenter's effect: nothing on /app/cities, else map.setView.
ChangeCenter(m, loc) ==
    IF loc.pathname = ListPath THEN m
    ELSE [m EXCEPT !.view = View("setView", mapPosition(loc, m.position), zoomLevel(loc), {}, 0),
                   !.cmds = @ \cup {"setView"}]

\* The positions of the cities.
Positions(cs) == {<<cs[k].lat, cs[k].lng>> : k \in DOMAIN cs}

\* FitBounds' effect: map.fitBounds over all cities, on /app/cities only.
FitBounds(m, loc, s) ==
    IF loc.pathname = ListPath /\ Len(s.cities) > 0
    THEN [m EXCEPT !.view = View("fitBounds", <<>>, 6, Positions(s.cities), 50),
                   !.cmds = @ \cup {"fitBounds"}]
    ELSE m

\* The two effects after a render with location loc and store state s: each
\* runs when its dependencies changed, ChangeCenter's first.
ViewFlush(m, loc, s) ==
    LET m0 == [m EXCEPT !.cmds = {}]
        m1 == IF m.centerDeps # CenterDeps(loc, m) THEN ChangeCenter(m0, loc) ELSE m0
        m2 == IF m.fitDeps # FitDeps(loc, s) THEN FitBounds(m1, loc, s) ELSE m1
    IN  [m2 EXCEPT !.centerDeps = CenterDeps(loc, m), !.fitDeps = FitDeps(loc, s)]

ViewPending ==
    map.centerDeps # CenterDeps(location, map) \/ map.fitDeps # FitDeps(location, state)

\* The viewport effects of one commit.
ViewEffects ==
    /\ ViewPending
    /\ map' = ViewFlush(map, location, state)
    /\ UNCHANGED <<geocode, auth, state, memo, effectDeps, effectRuns, db, nextId, net, timers,
                   refetches, overlapped, location, form, last>>

\* The URLs the application is opened at when the viewport is looked at.
ViewEntryLocations ==
    { Location(ListPath, NoId, Null, Null),
      Location(DetailPath, 1, "38", "-9"),
      Location(FormPath, NoId, "20", "20"),
      Location(FormPath, NoId, "abc", "20") }

InitView ==
    /\ state = initialState
    /\ memo = initialMemo
    /\ effectDeps = <<>>
    /\ effectRuns = 0
    /\ db \in {<<>>, <<Lisbon>>}
    /\ nextId = Len(db) + 1
    /\ net = <<>>
    /\ timers = <<>>
    /\ refetches = 0
    /\ overlapped = {}
    /\ location \in ViewEntryLocations
    /\ map = [MapInit EXCEPT !.view = InitialView(location, MapInit)]
    /\ form = FormAfter(FormInit, Location(ListPath, NoId, Null, Null), location)
    /\ auth = AuthSignedIn
    /\ geocode = GeocodeInit
    /\ last = [type |-> "none", threw |-> FALSE]

\* No effect of the Map is waiting to run.
MapIdle == ~ViewPending /\ ~SyncPending

\* The runs in which the viewport is looked at: the list is fetched, a city
\* is opened, the map is clicked, the position is asked for, the user goes
\* back; the effects of a commit run before anything else happens.
NextView ==
    \/ ViewEffects
    \/ ~ViewPending /\ SyncEffect
    \/ MapIdle /\ FetchEffect
    \/ MapIdle /\ \E i \in DOMAIN net : ServerHandle(i)
    \/ MapIdle /\ \E i \in DOMAIN net : FetchReply(i)
    \/ MapIdle /\ \E j \in DOMAIN timers : SettleDelay(j)
    \/ MapIdle /\ \E k \in DOMAIN state.cities : CityItemClick(k)
    \/ MapIdle /\ GeoButton
    \/ MapIdle /\ \E fix \in Fixes : GeoFix(fix)
    \/ MapIdle /\ \E lat \in ClickLats, lng \in ClickLngs : DetectClick(lat, lng)
    \/ MapIdle /\ BackButton

SpecView == InitView /\ [][NextView]_vars

\* C23: recentring and fitting are exclusive by route: the effects of a
\* commit command setView only off /app/cities and fitBounds only on
\* /app/cities, the latter over the positions of all cities with padding 50
\* and a zoom of 6 at most; never both.
RecenterOrFit ==
    /\ [](map.cmds # {"setView", "fitBounds"})
    /\ [][ ViewEffects
             => /\ "setView" \in map'.cmds => location.pathname # ListPath
                /\ "fitBounds" \in map'.cmds
                     => /\ location.pathname = ListPath
                        /\ map'.view.kind = "fitBounds"
                        /\ map'.view.points = {<<c.lat, c.lng>> : c \in {state.cities[k] : k \in DOMAIN state.cities}}
                        /\ map'.view.padding = 50
                        /\ map'.view.zoom = 6 ]_vars

\* The list has been fitted to its one city after a city had been opened
\* and left again, with a fix at hand.
RecenterOrFitWitness ==
    /\ map.cmds = {"fitBounds"}
    /\ map.view.kind = "fitBounds"
    /\ map.view.points = {<<Num(38), Num(-9)>>}
    /\ state.currentCity # NoCity
    /\ map.position # NoFix

\* C24: off /app/cities a recentre is commanded only when the resolved
\* position changed by value or the zoom changed: a run of the effects that
\* commands setView, following a run off /app/cities, finds another
\* position or another zoom than that run did.
RecenterOnlyOnChange ==
    [][ ( /\ ViewEffects
          /\ "setView" \in map'.cmds
          /\ map.centerDeps # <<>>
          /\ ~map.centerDeps.isList )
          => \/ map.centerDeps.value # mapPosition(location, map.position)
             \/ map.centerDeps.zoom # zoomLevel(location) ]_vars

\* C25: after the Back button the URL has no lat and lng, the route is
\* /app/cities, the resolved position is [40, 0], and the viewport, once the
\* effects of that render have run, is centred on [40, 0].
BackResetsViewport ==
    [][ BackButton
          => LET shown == ViewFlush(map', location', state').view
             IN  /\ location' = Location(ListPath, NoId, Null, Null)
                 /\ mapPosition(location', map'.position) = DefaultCenter
                 /\ shown.kind \in {"initial", "setView"}
                 /\ shown.center = DefaultCenter ]_vars

----------------------------------------------------------------------------
(* Authentication: the reducer, the routes, the Login page *)

MaxLogins == 2

\* A logout that forgets to clear the user.
authLogoutKeepsUser(s, action) ==
    IF action.type = "login"
    THEN [s EXCEPT !.user = action.payload, !.isAuthenticated = TRUE]
    ELSE IF action.type = "logout"
    THEN [s EXCEPT !.isAuthenticated = FALSE]
    ELSE Thrown

\* reducer of FakeAuthContext.
authReducer(s, action) ==
    IF action.type = "login"
    THEN [s EXCEPT !.user = action.payload, !.isAuthenticated = TRUE]
    ELSE IF action.type = "logout"
    THEN [s EXCEPT !.user = NoUser, !.isAuthenticated = FALSE]
    ELSE Thrown

\* login(email, password): dispatches login for the fake user's credentials,
\* throws for any other.
login(s, email, password) ==
    IF email = FakeEmail /\ password = FakePassword
    THEN [authReducer(s, [type |-> "login", payload |-> FakeUser])
            EXCEPT !.threw = FALSE, !.logins = @ + 1]
    ELSE [s EXCEPT !.threw = TRUE]

logout(s) == authReducer(s, [type |-> "logout"])

\* The routes under /app, which App wraps in ProtectedRoute.
ProtectedPaths == {"/app", "/app/cities", "/app/form"}

\* A ProtectedRoute that renders its children and leaves the redirect to an
\* effect.
ProtectedRouteByEffect(a) == "children"

\* What ProtectedRoute returns: <Navigate to="/login"> or its children.
ProtectedRoute(a) == IF ~a.isAuthenticated THEN "Navigate to /login" ELSE "children"

\* What Login returns: <Navigate to={from}> or the form.
Login(a) == IF a.isAuthenticated THEN "Navigate to from" ELSE "login form"

\* What the router renders for the URL.
Rendered(a) ==
    IF a.pathname \in ProtectedPaths THEN ProtectedRoute(a)
    ELSE IF a.pathname = "/login" THEN Login(a)
    ELSE "public page"

\* `from` of Login: the saved location's pathname, or /app.
LoginFrom(a) == IF a.from = NoFrom THEN "/app" ELSE a.from[1]

\* A redirect of the current render is still to be carried out.
RedirectPending(a) ==
    \/ a.pathname \in ProtectedPaths /\ ~a.isAuthenticated
    \/ a.pathname = "/login" /\ a.isAuthenticated
    \/ a.pathname = "/app" /\ a.isAuthenticated

\* <Navigate to="/login" state={{ from: location }} replace /> takes effect.
ProtectedRedirect ==
    /\ auth.pathname \in ProtectedPaths
    /\ ~auth.isAuthenticated
    /\ auth' = [auth EXCEPT !.pathname = "/login", !.search = "",
                            !.from = <<auth.pathname, auth.search>>]
    /\ UNCHANGED <<geocode, state, memo, effectDeps, effectRuns, db, nextId, net, timers,
                   refetches, overlapped, map, location, form, last>>

\* Login's redirect of an authenticated user: navigate(from, {replace: true}).
LoginRedirect ==
    /\ auth.pathname = "/login"
    /\ auth.isAuthenticated
    /\ auth' = [auth EXCEPT !.pathname = LoginFrom(auth), !.search = "", !.from = NoFrom]
    /\ UNCHANGED <<geocode, state, memo, effectDeps, effectRuns, db, nextId, net, timers,
                   refetches, overlapped, map, location, form, last>>

\* <Route index element={<Navigate to="/app/cities" replace />}>.
IndexRedirect ==
    /\ auth.pathname = "/app"
    /\ auth.isAuthenticated
    /\ auth' = [auth EXCEPT !.pathname = "/app/cities", !.search = "", !.from = NoFrom]
    /\ UNCHANGED <<geocode, state, memo, effectDeps, effectRuns, db, nextId, net, timers,
                   refetches, overlapped, map, location, form, last>>

\* The URLs the links of the application and the address bar lead to.
AuthTargets ==
    { <<"/", "">>, <<"/login", "">>, <<"/app", "">>, <<"/app/cities", "">>,
      <<"/app/form", "?lat=20&lng=20">> }

\* The user follows a link.
FollowLink(target) ==
    /\ ~RedirectPending(auth)
    /\ <<auth.pathname, auth.search>> # target
    /\ auth' = [auth EXCEPT !.pathname = target[1], !.search = target[2], !.from = NoFrom]
    /\ UNCHANGED <<geocode, state, memo, effectDeps, effectRuns, db, nextId, net, timers,
                   refetches, overlapped, map, location, form, last>>

\* What the user types into the Login form.
Credentials == { <<FakeEmail, FakePassword>>, <<FakeEmail, "12345">>,
                 <<"jill@example.com", FakePassword>> }

TypeCredentials(c) ==
    /\ ~RedirectPending(auth)
    /\ auth.pathname = "/login"
    /\ <<auth.email, auth.password>> # c
    /\ auth' = [auth EXCEPT !.email = c[1], !.password = c[2]]
    /\ UNCHANGED <<geocode, state, memo, effectDeps, effectRuns, db, nextId, net, timers,
                   refetches, overlapped, map, location, form, last>>

\* handleSubmit of Login: login(email, password), its exception caught.
LoginSubmit ==
    /\ ~RedirectPending(auth)
    /\ auth.pathname = "/login"
    /\ auth.logins < MaxLogins
    /\ auth' = login(auth, auth.email, auth.password)
    /\ UNCHANGED <<geocode, state, memo, effectDeps, effectRuns, db, nextId, net, timers,
                   refetches, overlapped, map, location, form, last>>

\* A consumer inside the application calls logout().
Logout ==
    /\ ~RedirectPending(auth)
    /\ auth.isAuthenticated
    /\ auth' = logout(auth)
    /\ UNCHANGED <<geocode, state, memo, effectDeps, effectRuns, db, nextId, net, timers,
                   refetches, overlapped, map, location, form, last>>

\* The application is loaded at any of its URLs, nobody logged in.
InitAuth ==
    /\ state = initialState
    /\ memo = initialMemo
    /\ effectDeps = <<>>
    /\ effectRuns = 0
    /\ db = <<>>
    /\ nextId = 1
    /\ net = <<>>
    /\ timers = <<>>
    /\ refetches = 0
    /\ overlapped = {}
    /\ map = MapInit
    /\ location = Location(ListPath, NoId, Null, Null)
    /\ form = FormInit
    /\ \E target \in AuthTargets : auth = AuthInit(target[1], target[2])
    /\ geocode = GeocodeInit
    /\ last = [type |-> "none", threw |-> FALSE]

NextAuth ==
    \/ ProtectedRedirect
    \/ LoginRedirect
    \/ IndexRedirect
    \/ \E target \in AuthTargets : FollowLink(target)
    \/ \E c \in Credentials : TypeCredentials(c)
    \/ LoginSubmit
    \/ Logout

SpecAuth == InitAuth /\ [][NextAuth]_vars

LoginReturnsToOrigin ==
    /\ [](auth.isAuthenticated => Rendered(auth) # "login form")
    /\ [][ LoginRedirect
             => <<auth'.pathname, auth'.search>> =
                  (IF auth.from = NoFrom THEN <<"/app", "">> ELSE auth.from) ]_vars

\* C28: isAuthenticated is true exactly when user is not null; login with an
\* email or password other than the fake user's throws and changes nothing;
\* login with the right ones sets user to the fake user's data; logout
\* returns to user = null, isAuthenticated = false.
AuthStateConsistent ==
    /\ [](auth.isAuthenticated <=> auth.user # NoUser)
    /\ [][ LoginSubmit
             => IF auth.email = FakeEmail /\ auth.password = FakePassword
                THEN /\ auth'.user = FakeUser
                     /\ auth'.isAuthenticated
                     /\ ~auth'.threw
                ELSE /\ auth'.threw
                     /\ auth'.user = auth.user
                     /\ auth'.isAuthenticated = auth.isAuthenticated ]_vars
    /\ [][ Logout => (auth'.user = NoUser /\ ~auth'.isAuthenticated) ]_vars

\* A wrong password has been refused after an earlier login and logout.
AuthStateConsistentWitness ==
    /\ auth.logins = 1
    /\ auth.threw
    /\ auth.user = NoUser
    /\ auth.password # FakePassword

----------------------------------------------------------------------------
(* Races in the store *)

\* C29: when a deleteCity(id) and a selection of the same id race, the
\* state converges: once the delete has been applied and no settle delay is
\* pending, currentCity is not the deleted city.
DeleteSelectConverges ==
    (timers = <<>> /\ state.currentCity # NoCity)
      => state.currentCity.id \notin DeletedIds

\* C30: no two members of `cities` have the same id, whatever the order in
\* which the replies of fetches and creates arrive.
IdsUnique ==
    \A k, l \in DOMAIN state.cities :
        state.cities[k].id = state.cities[l].id => k = l

----------------------------------------------------------------------------
(* The body of a fetch reply *)

\* The bodies a 2xx reply to GET /cities may carry.
Bodies == {"array", "wrapper", "object", "null", "malformed"}

\* The remote side answers GET request i with a success status and a body of
\* any of these shapes around its collection.
ServerBody(i) ==
    /\ net[i].phase = "sent"
    /\ net[i].op = "GET"
    /\ \E shape \in Bodies :
          net' = [net EXCEPT ![i].phase = "ok", ![i].shape = shape,
                             ![i].data = IF shape \in {"array", "wrapper"}
                                         THEN db ELSE <<>>]
    /\ UNCHANGED <<geocode, auth, state, memo, effectDeps, effectRuns, db, nextId, timers,
                   refetches, overlapped, map, location, form, last>>

NextBody ==
    \/ FetchEffect
    \/ Refetch
    \/ \E i \in DOMAIN net : ServerBody(i)
    \/ \E i \in DOMAIN net : ServerHandle(i)
    \/ \E i \in DOMAIN net : FetchReply(i)

SpecBody == Init /\ [][NextBody]_vars

\* C31: after a fetch reply with a success status `cities` is the body when
\* the body is an array and body.cities when the body wraps an array; for a
\* body of any other shape the reply is a fetch failure: error is set and
\* `cities` stays what it was.
FetchBodyCoerced ==
    [][\A i \in DOMAIN net :
          FetchReply(i) /\ net[i].phase = "ok" =>
             IF net[i].shape \in {"array", "wrapper"}
             THEN state'.cities = net[i].data /\ state'.error = Null
             ELSE state'.cities = state.cities /\ state'.error # Null]_vars

----------------------------------------------------------------------------
(* Completion of the asynchronous operations *)

\* A request sent is answered or fails, a reply received resumes the function
\* awaiting it, a timer set fires, and an effect scheduled runs.
SpecSelectLive ==
    /\ SpecSelect
    /\ WF_vars(FetchEffect)
    /\ WF_vars(\E i \in DOMAIN net : ServerHandle(i))
    /\ WF_vars(\E i \in DOMAIN net : FetchReply(i))
    /\ WF_vars(\E j \in DOMAIN timers : SettleDelay(j))

\* No fetch is scheduled or in flight and no settle delay is pending.
AllSettled == ~EffectPending /\ net = <<>> /\ timers = <<>>

\* C32: every loading/started is eventually followed by cities/loaded or
\* error/occurred and every city/loading-started by city/selected or
\* error/occurred; once all replies and timers have fired isLoading and
\* isLoadingCity are both false.
LoadingEnds ==
    /\ (last.type = "loading/started")
          ~> (last.type \in {"cities/loaded", "error/occurred"})
    /\ (last.type = "city/loading-started")
          ~> (last.type \in {"city/selected", "error/occurred"})
    /\ [](AllSettled => ~state.isLoading /\ ~state.isLoadingCity)

\* A fetch and a selection were started and both have completed.
LoadingEndsWitness ==
    /\ AllSettled
    /\ refetches = MaxRefetch
    /\ state.currentCity # NoCity
    /\ last.type = "city/selected"
    /\ ~state.isLoading /\ ~state.isLoadingCity

----------------------------------------------------------------------------
(* The resolved position and the query string *)

IsNumber(v) == v # NaN /\ v # JsNull

\* C33: the resolved position never contains a non-number: query coordinates
\* that do not both parse as numbers are not used, and what ChangeCenter hands
\* to setView is a pair of numbers.
PositionIsNumeric ==
    /\ [](LET p == mapPosition(location, map.position)
          IN  IsNumber(p[1]) /\ IsNumber(p[2]))
    /\ [][ViewEffects /\ "setView" \in map'.cmds
            => IsNumber(map'.view.center[1]) /\ IsNumber(map'.view.center[2])]_vars

----------------------------------------------------------------------------
(* The loading flags and the operations in progress *)

\* A GET /cities request has been sent and fetchCities has not resumed.
FetchInFlight == \E i \in DOMAIN net : net[i].op = "GET"

\* C34: isLoading is true in every state in which a GET /cities request is
\* in flight, whatever create, delete or selection fails in the meantime.
LoadingWhileFetching == FetchInFlight => state.isLoading

\* C35: isLoadingCity is true in every state in which a handleCityClick
\* selection is pending, its settle delay not yet elapsed.
LoadingCityWhilePending == timers # <<>> => state.isLoadingCity

----------------------------------------------------------------------------
(* The derived selectedCityId *)

\* A city the remote store keeps under the id 0.
Origin == [id |-> 0, cityName |-> "Origin", lat |-> Num(10), lng |-> Num(20)]

InitZero ==
    /\ state = initialState
    /\ memo = initialMemo
    /\ effectDeps = <<>>
    /\ effectRuns = 0
    /\ db \in {<<Origin>>, <<Origin, Lisbon>>}
    /\ nextId = Len(db) + 1
    /\ net = <<>>
    /\ timers = <<>>
    /\ refetches = 0
    /\ overlapped = {}
    /\ map = MapInit
    /\ location = Location(ListPath, NoId, Null, Null)
    /\ form = FormInit
    /\ auth = AuthSignedIn
    /\ geocode = GeocodeInit
    /\ last = [type |-> "none", threw |-> FALSE]

\* The collection is fetched and cities are selected and deselected by id.
NextZero ==
    \/ FetchEffect
    \/ \E i \in DOMAIN net : ServerHandle(i)
    \/ \E i \in DOMAIN net : FetchReply(i)
    \/ \E j \in DOMAIN timers : SettleDelay(j)
    \/ \E id \in 0..MaxId : ClickCall(id)
    \/ \E id \in {NoId} \cup (0..MaxId) : SetSelectedCall(id)

SpecZero == InitZero /\ [][NextZero]_vars

\* C36: the exposed selectedCityId is currentCity.id whenever currentCity is
\* not null, and null exactly when currentCity is null, for every id.
SelectedIdMatches ==
    IF state.currentCity = NoCity
    THEN selectedCityId(state) = NoId
    ELSE selectedCityId(state) = state.currentCity.id

----------------------------------------------------------------------------
(* The sync effect comes to rest *)

\* C37: the sync effect reaches a fixed point after every event: a run that
\* writes the fix to the URL is followed by a run that writes nothing, and a
\* run that writes nothing leaves no further run pending; so an event causes
\* one write and one navigation at most.
SyncEffectSettles ==
    /\ [][SyncEffect /\ SyncWrites => ~SyncWrites']_vars
    /\ [][SyncEffect /\ ~SyncWrites => ~SyncPending']_vars

\* The effect has written a fix to the URL after a press of the button, has
\* run once more for the URL it wrote, and is at rest.
SyncEffectSettlesWitness ==
    /\ map.position # NoFix
    /\ location = FixLocation
    /\ map.syncDeps = SyncDeps
    /\ ~map.geoRequested
    /\ map.requests = 0

----------------------------------------------------------------------------
(* The Form's effect on [lat, lng]: reverse geocoding *)

MaxGeocode == 2

\* Where the user clicks while the Form is open.
GeocodeLats == {10, 20}

\* What the geocoder answers for a pair of coordinates: data.address with
\* its city, country and country code, the latter shown as a flag.
Place(lat, lng) ==
    [city |-> "city at " \o lat \o "," \o lng,
     country |-> "country at " \o lat \o "," \o lng,
     emoji |-> "flag at " \o lat \o "," \o lng]

\* The Form's effect has to run: lat or lng changed since its last run.
GeocodePending ==
    location.pathname = FormPath /\ geocode.deps # <<location.lat, location.lng>>

\* fetchCityData up to its await: the reset of the fields, the validation,
\* then isLoadingGeocoding and the request for the coordinates of this run.
GeocodeEffect ==
    /\ GeocodePending
    /\ Len(geocode.pending) < MaxGeocode
    /\ LET f == fetchCityData(form, location.lat, location.lng)
           sends == Present(location.lat) /\ Present(location.lng) /\ f.error = ""
       IN  /\ form' = f
           /\ geocode' = [geocode EXCEPT
                  !.countryName = "", !.emoji = "",
                  !.deps = <<location.lat, location.lng>>,
                  !.isLoadingGeocoding = IF sends THEN TRUE ELSE @,
                  !.pending = IF sends THEN Append(@, <<location.lat, location.lng>>)
                              ELSE @]
    /\ UNCHANGED <<auth, state, memo, effectDeps, effectRuns, db, nextId, net, timers,
                   refetches, overlapped, map, location, last>>

\* The outcomes of a request: an address, a body without one, a failure.
GeocodeOutcomes == {"found", "empty", "failed"}

\* fetchCityData after its await, for the request i of the pending ones: the
\* fields are set from the reply, or the error, and isLoadingGeocoding reset.
GeocodeReply(i) ==
    /\ ~EffectPending /\ ~GeocodePending
    /\ \E outcome \in GeocodeOutcomes :
          LET place == Place(geocode.pending[i][1], geocode.pending[i][2])
          IN  /\ form' = IF outcome = "found" THEN [form EXCEPT !.cityName = place.city]
                         ELSE IF outcome = "empty"
                              THEN [form EXCEPT !.error = "No location data found"]
                              ELSE [form EXCEPT !.error = "Failed to fetch city data"]
              /\ geocode' = [geocode EXCEPT
                     !.countryName = IF outcome = "found" THEN place.country ELSE @,
                     !.emoji = IF outcome = "found" THEN place.emoji ELSE @,
                     !.isLoadingGeocoding = FALSE,
                     !.pending = Remove(@, i)]
    /\ UNCHANGED <<auth, state, memo, effectDeps, effectRuns, db, nextId, net, timers,
                   refetches, overlapped, map, location, last>>

\* The Form is open at coordinates a click or a link gave it.
InitGeocode ==
    /\ state = initialState
    /\ memo = initialMemo
    /\ effectDeps = <<>>
    /\ effectRuns = 0
    /\ db = <<>>
    /\ nextId = 1
    /\ net = <<>>
    /\ timers = <<>>
    /\ refetches = 0
    /\ overlapped = {}
    /\ map = MapInit
    /\ location \in { Location(FormPath, NoId, "20", "20"),
                      Location(FormPath, NoId, "abc", "20") }
    /\ form = FormInit
    /\ auth = AuthSignedIn
    /\ geocode = GeocodeInit
    /\ last = [type |-> "none", threw |-> FALSE]

\* The runs in which the user moves the open Form over the map while the
\* geocoder answers in any order.
NextGeocode ==
    \/ FetchEffect
    \/ \E i \in DOMAIN net : ServerHandle(i)
    \/ \E i \in DOMAIN net : FetchReply(i)
    \/ GeocodeEffect
    \/ ~GeocodePending /\ \E lat \in GeocodeLats, lng \in ClickLngs : DetectClick(lat, lng)
    \/ \E i \in DOMAIN geocode.pending : GeocodeReply(i)

SpecGeocode == InitGeocode /\ [][NextGeocode]_vars

\* C38: once all replies have arrived the Form shows the city, country and
\* flag of the latest coordinates: what it shows is never the answer to a
\* request for earlier coordinates.
GeocodeShowsLatest ==
    ( /\ location.pathname = FormPath
      /\ ~GeocodePending
      /\ geocode.pending = <<>>
      /\ form.cityName # "" )
      => /\ form.cityName = Place(location.lat, location.lng).city
         /\ geocode.countryName = Place(location.lat, location.lng).country
         /\ geocode.emoji = Place(location.lat, location.lng).emoji

----------------------------------------------------------------------------
(* Submissions of one Form *)

\* The createCity calls of the Form that is mounted which have not returned.
PendingSubmissions == {i \in DOMAIN net : net[i].op = "POST" /\ net[i].mounted}

----------------------------------------------------------------------------
(* The selection and the order of the calls *)

\* C40: the selection is that of the call made last; a handleCityClick that
\* is pending never overrides a later deselect: when its delay ends and the
\* store's last action was the city/deselected of a call made after it,
\* currentCity stays null.
SelectionFollowsLastCall ==
    [][\A j \in DOMAIN timers :
          (SettleDelay(j) /\ last.type = "city/deselected")
             => state'.currentCity = NoCity]_vars
====
